---- MODULE Spec2Model ----
(***************************************************************************)
(* A model of the LaTeX conversion service of src/main.py: the handler     *)
(* convert_latex, the staging helpers of LatexConverter, the two renderer  *)
(* adapters and cleanup_temp_dir, over an explicit file system.            *)
(*                                                                         *)
(* A string is a sequence of one-character strings, a path is a sequence   *)
(* of components (each a string), absolute from the file-system root.      *)
(***************************************************************************)
EXTENDS Integers, Sequences, FiniteSets, TLC

\* ------------------------------------------------------------------ bounds

\* The number of request slots of the concurrent specification.
MaxRequests == 2

\* The longest error stream (in bytes) a backend process writes.
MaxStderrLen == 2

\* The longest output_filename of the sanitizer's specification.
MaxNameLen == 3

\* ----------------------------------------------------------------- strings

DotTex == <<".", "t", "e", "x">>
DotZip == <<".", "z", "i", "p">>
DotPdf == <<".", "p", "d", "f">>
DotMd == <<".", "m", "d">>
DotDot == <<".", ".">>

Lower == {"a", "b", "c", "d", "e", "f", "g", "h", "i", "j", "k", "l", "m",
          "n", "o", "p", "q", "r", "s", "t", "u", "v", "w", "x", "y", "z"}
Upper == {"A", "B", "C", "D", "E", "F", "G", "H", "I", "J", "K", "L", "M",
          "N", "O", "P", "Q", "R", "S", "T", "U", "V", "W", "X", "Y", "Z"}
Digit == {"0", "1", "2", "3", "4", "5", "6", "7", "8", "9"}

\* The character class [a-zA-Z0-9_\-\. ] of sanitize_filename's pattern.
AllowedChar(c) == c \in Lower \union Upper \union Digit \union {"_", "-", ".", " "}

\* str.endswith
EndsWith(s, suffix) ==
    /\ Len(s) >= Len(suffix)
    /\ SubSeq(s, Len(s) - Len(suffix) + 1, Len(s)) = suffix

\* str.rfind, one-based; 0 when the character does not occur.
RFind(s, ch) ==
    LET hits == {i \in 1..Len(s) : s[i] = ch}
    IN  IF hits = {} THEN 0 ELSE CHOOSE i \in hits : \A j \in hits : j <= i

\* str.split("/")
RECURSIVE SplitAcc(_, _, _)
SplitAcc(s, cur, acc) ==
    IF s = <<>> THEN Append(acc, cur)
    ELSE IF Head(s) = "/" THEN SplitAcc(Tail(s), <<>>, Append(acc, cur))
    ELSE SplitAcc(Tail(s), Append(cur, Head(s)), acc)

SplitSlash(s) == SplitAcc(s, <<>>, <<>>)

\* os.path.basename (posix): what follows the last slash.
Basename(s) == SubSeq(s, RFind(s, "/") + 1, Len(s))

DefaultName == <<"d", "o", "c", "u", "m", "e", "n", "t">>

\* A sanitizer without the default for an empty result.
sanitize_without_default(name) == SelectSeq(Basename(name), AllowedChar)

sanitize_filename(name) ==
    LET stripped == SelectSeq(Basename(name), AllowedChar)
    IN  IF stripped = <<>> THEN DefaultName ELSE stripped

\* ------------------------------------------------------------------- paths

\* pathlib's parsing of a string: empty and "." components are dropped,
\* ".." components are kept.
KeepPart(c) == c # <<>> /\ c # <<".">>

PathParts(s) == SelectSeq(SplitSlash(s), KeepPart)

IsAbsolute(s) == s # <<>> /\ Head(s) = "/"

\* directory / name: an absolute right operand replaces the left one.
Join(directory, s) ==
    IF IsAbsolute(s) THEN PathParts(s) ELSE directory \o PathParts(s)

\* PurePath.name, .parent, .suffix, .stem
PathName(p) == IF p = <<>> THEN <<>> ELSE p[Len(p)]

PathParent(p) == IF p = <<>> THEN <<>> ELSE SubSeq(p, 1, Len(p) - 1)

NameSuffix(n) ==
    LET i == RFind(n, ".")
    IN  IF 1 < i /\ i < Len(n) THEN SubSeq(n, i, Len(n)) ELSE <<>>

NameStem(n) == SubSeq(n, 1, Len(n) - Len(NameSuffix(n)))

PathStem(p) == NameStem(PathName(p))

\* ------------------------------------------------------------- file system

\* A file system is a function from the absolute paths that exist to their
\* entries. The root directory <<>> always exists.
\* The bytes of a file: where they come from (src), for a zip archive its
\* members in archive order, and for a renderer's output the document it was
\* rendered from (of).
Bytes(src) == [src |-> src, zip |-> FALSE, members |-> <<>>, of |-> <<>>]

ZipBytes(members) == [src |-> "user", zip |-> TRUE, members |-> members, of |-> <<>>]

Rendered(src, input_path) ==
    [src |-> src, zip |-> FALSE, members |-> <<>>, of |-> input_path]

\* An entry's owner is the request whose mkdtemp made it (a workspace), else 0.
FileEntry(data) == [kind |-> "file", data |-> data, owner |-> 0]

DirEntry == [kind |-> "dir", data |-> Bytes(""), owner |-> 0]

WorkspaceEntry(r) == [kind |-> "dir", data |-> Bytes(""), owner |-> r]

IsDir(f, p) == p = <<>> \/ (p \in DOMAIN f /\ f[p].kind = "dir")

IsFile(f, p) == p \in DOMAIN f /\ f[p].kind = "file"

IsPrefix(p, q) == Len(p) <= Len(q) /\ SubSeq(q, 1, Len(p)) = p

Ok(f) == [ok |-> TRUE, fs |-> f, err |-> ""]

Fail(f, err) == [ok |-> FALSE, fs |-> f, err |-> err]

\* The kernel's path walk: every component but the last names an existing
\* directory, and ".." steps to the parent of the directory reached.
RECURSIVE Resolve(_, _, _)
Resolve(f, cur, rest) ==
    IF rest = <<>> THEN [ok |-> TRUE, path |-> cur, err |-> ""]
    ELSE IF ~IsDir(f, cur)
    THEN [ok |-> FALSE, path |-> cur,
          err |-> IF cur \in DOMAIN f THEN "NotADirectoryError"
                  ELSE "FileNotFoundError"]
    ELSE IF Head(rest) = DotDot THEN Resolve(f, PathParent(cur), Tail(rest))
    ELSE Resolve(f, Append(cur, Head(rest)), Tail(rest))

\* Path.exists
Exists(f, p) ==
    LET r == Resolve(f, <<>>, p)
    IN  r.ok /\ (r.path = <<>> \/ r.path \in DOMAIN f)

\* open(p, "wb") followed by writing data: creates or truncates.
OpenWrite(f, p, data) ==
    LET r == Resolve(f, <<>>, p)
    IN  IF ~r.ok THEN Fail(f, r.err)
        ELSE IF IsDir(f, r.path) THEN Fail(f, "IsADirectoryError")
        ELSE Ok([q \in DOMAIN f \union {r.path} |->
                    IF q = r.path THEN FileEntry(data) ELSE f[q]])

\* os.mkdir
Mkdir(f, p) ==
    IF p = <<>> \/ p \in DOMAIN f THEN Fail(f, "FileExistsError")
    ELSE IF ~IsDir(f, PathParent(p))
    THEN Fail(f, IF PathParent(p) \in DOMAIN f THEN "NotADirectoryError"
                 ELSE "FileNotFoundError")
    ELSE Ok([q \in DOMAIN f \union {p} |-> IF q = p THEN DirEntry ELSE f[q]])

\* os.makedirs(p): the missing ancestors are made first, then p itself.
RECURSIVE MakeDirs(_, _)
MakeDirs(f, p) ==
    IF p = <<>> THEN Fail(f, "FileExistsError")
    ELSE IF PathParent(p) = <<>> \/ PathParent(p) \in DOMAIN f THEN Mkdir(f, p)
    ELSE LET up == MakeDirs(f, PathParent(p))
         IN  IF up.ok THEN Mkdir(up.fs, p) ELSE up

\* Path.iterdir: the entries directly inside directory d.
IterDir(f, d) == {p \in DOMAIN f : Len(p) = Len(d) + 1 /\ IsPrefix(d, p)}

\* shutil.rmtree(p, ignore_errors=True): p and all beneath it go; when p is
\* missing or is no directory the error is ignored and nothing changes.
RmTree(f, p) ==
    IF p = <<>> \/ ~IsDir(f, p) THEN f
    ELSE [q \in {x \in DOMAIN f : ~IsPrefix(p, x)} |-> f[q]]

\* What shutil.rmtree(p, ignore_errors=True) leaves when the file system
\* refuses deletions: everything, or the directory p emptied but not removed.
RmTreeFailing(f, p) ==
    IF p = <<>> \/ ~IsDir(f, p) THEN {f}
    ELSE {f, [q \in {x \in DOMAIN f : ~IsPrefix(p, x) \/ x = p} |-> f[q]]}

\* os.rename of a regular file (Path.rename).
RenameFile(f, src, dst) ==
    LET s == Resolve(f, <<>>, src)
        d == Resolve(f, <<>>, dst)
    IN  IF ~s.ok THEN Fail(f, s.err)
        ELSE IF s.path = <<>> \/ s.path \notin DOMAIN f
        THEN Fail(f, "FileNotFoundError")
        ELSE IF ~d.ok THEN Fail(f, d.err)
        ELSE IF IsDir(f, s.path) THEN Fail(f, "OSError")
        ELSE IF IsDir(f, d.path) THEN Fail(f, "IsADirectoryError")
        ELSE Ok([q \in (DOMAIN f \ {s.path}) \union {d.path} |->
                    IF q = d.path THEN f[s.path] ELSE f[q]])

\* -------------------------------------------------------------- exceptions

NoDetail == [msg |-> "", log |-> <<>>]

\* No exception.
NoExc == [type |-> "", status_code |-> 0, detail |-> NoDetail]

\* A Python exception other than HTTPException.
Exc(type) == [type |-> type, status_code |-> 0, detail |-> NoDetail]

\* HTTPException(status_code=code, detail=msg + log); log is a sequence of
\* code points.
HTTPException(code, msg, log) ==
    [type |-> "HTTPException", status_code |-> code,
     detail |-> [msg |-> msg, log |-> log]]

\* ------------------------------------------------------------------- UTF-8

IsCont(x) == 128 <= x /\ x <= 191

\* The length of the sequence a lead byte opens; 0 for a byte that opens none.
Utf8Len(b) ==
    IF b < 128 THEN 1
    ELSE IF 194 <= b /\ b <= 223 THEN 2
    ELSE IF 224 <= b /\ b <= 239 THEN 3
    ELSE IF 240 <= b /\ b <= 244 THEN 4
    ELSE 0

\* The second byte's range, which excludes overlong forms, surrogates and
\* code points past U+10FFFF.
SecondOk(b1, b2) ==
    IF b1 = 224 THEN 160 <= b2 /\ b2 <= 191
    ELSE IF b1 = 237 THEN 128 <= b2 /\ b2 <= 159
    ELSE IF b1 = 240 THEN 144 <= b2 /\ b2 <= 191
    ELSE IF b1 = 244 THEN 128 <= b2 /\ b2 <= 143
    ELSE IsCont(b2)

Utf8Point(b, n) ==
    IF n = 1 THEN b[1]
    ELSE IF n = 2 THEN (b[1] - 192) * 64 + (b[2] - 128)
    ELSE IF n = 3 THEN (b[1] - 224) * 4096 + (b[2] - 128) * 64 + (b[3] - 128)
    ELSE (b[1] - 240) * 262144 + (b[2] - 128) * 4096 + (b[3] - 128) * 64
         + (b[4] - 128)

\* bytes.decode("utf-8"): strict, so one bad byte fails the whole decode.
RECURSIVE Utf8Decode(_)
Utf8Decode(b) ==
    IF b = <<>> THEN [ok |-> TRUE, chars |-> <<>>]
    ELSE LET n == Utf8Len(b[1])
             wellFormed ==
                 /\ n > 0
                 /\ Len(b) >= n
                 /\ n >= 2 => SecondOk(b[1], b[2])
                 /\ \A i \in 3..n : IsCont(b[i])
         IN  IF ~wellFormed THEN [ok |-> FALSE, chars |-> <<>>]
             ELSE LET rest == Utf8Decode(SubSeq(b, n + 1, Len(b)))
                  IN  IF rest.ok
                      THEN [ok |-> TRUE, chars |-> <<Utf8Point(b, n)>> \o rest.chars]
                      ELSE rest

\* str.encode("utf-8") of one code point, and of a string.
Utf8Bytes(c) ==
    IF c < 128 THEN <<c>>
    ELSE IF c < 2048 THEN <<192 + (c \div 64), 128 + (c % 64)>>
    ELSE IF c < 65536
    THEN <<224 + (c \div 4096), 128 + ((c \div 64) % 64), 128 + (c % 64)>>
    ELSE <<240 + (c \div 262144), 128 + ((c \div 4096) % 64),
           128 + ((c \div 64) % 64), 128 + (c % 64)>>

RECURSIVE Utf8Encode(_)
Utf8Encode(chars) ==
    IF chars = <<>> THEN <<>>
    ELSE Utf8Bytes(Head(chars)) \o Utf8Encode(Tail(chars))

\* ----------------------------------------------------------- LatexConverter

\* Path(__file__).parent / "latex_assets", with the application in /app.
AppDir == << <<"a", "p", "p">> >>

ASSETS_DIR ==
    Append(AppDir, <<"l", "a", "t", "e", "x", "_", "a", "s", "s", "e", "t", "s">>)

\* The files of ASSETS_DIR that _inject_assets copies into directory: the
\* regular files whose name does not exist there yet.
AssetsToCopy(f, directory) ==
    {item \in IterDir(f, ASSETS_DIR) :
        /\ IsFile(f, item)
        /\ ~Exists(f, Append(directory, PathName(item)))}

_inject_assets(f, directory) ==
    IF ~Exists(f, ASSETS_DIR) THEN Ok(f)
    ELSE IF ~IsDir(f, ASSETS_DIR) THEN Fail(f, "NotADirectoryError")
    ELSE LET items == AssetsToCopy(f, directory)
             dests == {Append(directory, PathName(item)) : item \in items}
         IN  IF items = {} THEN Ok(f)
             ELSE IF ~IsDir(f, directory) THEN Fail(f, "FileNotFoundError")
             ELSE Ok([q \in DOMAIN f \union dests |->
                        IF q \in dests
                        THEN f[Append(ASSETS_DIR, PathName(q))]
                        ELSE f[q]])

\* A staging that writes the upload first and then copies every asset over
\* what is there.
_save_then_overwrite(f, upload_file, directory) ==
    LET file_path == Join(directory, upload_file.filename)
        written == OpenWrite(f, file_path, upload_file.file)
        assets == {item \in IterDir(f, ASSETS_DIR) : IsFile(f, item)}
        dests == {Append(directory, PathName(item)) : item \in assets}
    IN  IF ~written.ok
        THEN [ok |-> FALSE, fs |-> written.fs, e |-> Exc(written.err), path |-> <<>>]
        ELSE [ok |-> TRUE,
              fs |-> [q \in DOMAIN written.fs \union dests |->
                        IF q \in dests THEN f[Append(ASSETS_DIR, PathName(q))]
                        ELSE written.fs[q]],
              e |-> NoExc, path |-> file_path]

\* Returns the file system, the exception raised if any, and file_path.
_save_upload_file(f, upload_file, directory) ==
    LET injected == _inject_assets(f, directory)
        file_path == Join(directory, upload_file.filename)
        written == OpenWrite(injected.fs, file_path, upload_file.file)
    IN  IF ~injected.ok
        THEN [ok |-> FALSE, fs |-> injected.fs, e |-> Exc(injected.err), path |-> <<>>]
        ELSE IF ~written.ok
        THEN [ok |-> FALSE, fs |-> written.fs, e |-> Exc(written.err), path |-> <<>>]
        ELSE [ok |-> TRUE, fs |-> written.fs, e |-> NoExc, path |-> file_path]

\* zipfile's member-name sanitising: empty, "." and ".." components go.
ZipKeepPart(c) == c # <<>> /\ c # <<".">> /\ c # DotDot

\* ZipFile._extract_member
ExtractMember(f, directory, member) ==
    LET targetpath == directory \o SelectSeq(SplitSlash(member.name), ZipKeepPart)
        upperdirs == PathParent(targetpath)
        made == IF Exists(f, upperdirs) THEN Ok(f) ELSE MakeDirs(f, upperdirs)
    IN  IF ~made.ok THEN made
        ELSE IF EndsWith(member.name, <<"/">>)
        THEN IF IsDir(made.fs, targetpath) THEN made ELSE Mkdir(made.fs, targetpath)
        ELSE OpenWrite(made.fs, targetpath, member.data)

\* ZipFile.extractall: the members in archive order; the first failure stops it
\* and leaves what was extracted so far.
RECURSIVE ExtractAll(_, _, _)
ExtractAll(f, directory, members) ==
    IF members = <<>> THEN Ok(f)
    ELSE LET one == ExtractMember(f, directory, Head(members))
         IN  IF one.ok THEN ExtractAll(one.fs, directory, Tail(members)) ELSE one

MainTex == <<"m", "a", "i", "n">> \o DotTex

\* directory.glob("*.tex"): the entries directly in directory whose name ends
\* with .tex, in no order.
GlobTex(f, directory) ==
    {p \in IterDir(f, directory) : EndsWith(PathName(p), DotTex)}

\* A search that tries the archive's own name before main.tex.
FindTexStemFirst(f, zip_path, directory) ==
    IF Exists(f, Append(directory, PathStem(zip_path) \o DotTex))
    THEN {Append(directory, PathStem(zip_path) \o DotTex)}
    ELSE IF Exists(f, Append(directory, MainTex))
    THEN {Append(directory, MainTex)}
    ELSE GlobTex(f, directory)

\* The entry documents the search of _extract_and_find_tex may return: one by
\* the first two rules, any of the glob's matches by the third (tex_files[0] of
\* a listing in no defined order), none when it raises.
FindTex(f, zip_path, directory) ==
    IF Exists(f, Append(directory, MainTex))
    THEN {Append(directory, MainTex)}
    ELSE IF Exists(f, Append(directory, PathStem(zip_path) \o DotTex))
    THEN {Append(directory, PathStem(zip_path) \o DotTex)}
    ELSE GlobTex(f, directory)

\* The injection and extraction of _extract_and_find_tex; the search follows
\* in the action, which picks among FindTex.
ExtractStage(f, zip_path, directory) ==
    LET injected == _inject_assets(f, directory)
        z == Resolve(injected.fs, <<>>, zip_path)
    IN  IF ~injected.ok THEN injected
        ELSE IF ~z.ok THEN Fail(injected.fs, z.err)
        ELSE IF z.path \notin DOMAIN injected.fs
        THEN Fail(injected.fs, "FileNotFoundError")
        ELSE IF IsDir(injected.fs, z.path)
        THEN Fail(injected.fs, "IsADirectoryError")
        ELSE IF ~injected.fs[z.path].data.zip
        THEN Fail(injected.fs, "BadZipFile")
        ELSE ExtractAll(injected.fs, directory, injected.fs[z.path].data.members)

\* A backend process's outcome: "ok", "missing" (the executable is not
\* installed) or "exit" (a non-zero exit status), with the bytes of its error
\* stream and, for pypandoc, the text of the RuntimeError it raises.
Outcome(kind, stderr, text) == [kind |-> kind, stderr |-> stderr, text |-> text]

RenderResult(f, e, path) == [ok |-> e = NoExc, fs |-> f, e |-> e, path |-> path]

to_pdf(f, input_path, output_dir, outcome) ==
    LET target == Append(output_dir, PathStem(input_path) \o DotPdf)
        error_log == Utf8Decode(outcome.stderr)
    IN  IF ~Exists(f, PathParent(input_path)) \/ outcome.kind = "missing"
        THEN RenderResult(f, Exc("FileNotFoundError"), <<>>)
        ELSE IF outcome.kind = "exit"
        THEN IF error_log.ok
             THEN RenderResult(f, HTTPException(422, "LaTeX Compilation Failed:\n",
                                                error_log.chars), <<>>)
             ELSE RenderResult(f, Exc("UnicodeDecodeError"), <<>>)
        ELSE RenderResult(OpenWrite(f, target, Rendered("pdf", input_path)).fs,
                          NoExc, target)

\* A converter adapter whose except clause also catches the OSError of a
\* missing pandoc.
to_markdown_catching_oserror(f, input_path, output_dir, outcome) ==
    LET output_path == Append(output_dir, <<"o", "u", "t", "p", "u", "t">> \o DotMd)
    IN  IF outcome.kind = "missing" \/ outcome.kind = "exit"
        THEN RenderResult(f, HTTPException(422, "Pandoc Conversion Failed:\n",
                                           outcome.text), <<>>)
        ELSE RenderResult(OpenWrite(f, output_path, Rendered("md", input_path)).fs,
                          NoExc, output_path)

to_markdown(f, input_path, output_dir, outcome) ==
    LET output_path == Append(output_dir, <<"o", "u", "t", "p", "u", "t">> \o DotMd)
    IN  IF outcome.kind = "missing"
        THEN RenderResult(f, Exc("OSError"), <<>>)
        ELSE IF outcome.kind = "exit"
        THEN RenderResult(f, HTTPException(422, "Pandoc Conversion Failed:\n",
                                           outcome.text), <<>>)
        ELSE RenderResult(OpenWrite(f, output_path, Rendered("md", input_path)).fs,
                          NoExc, output_path)

\* A backend can only exit with status 0 after reading a regular file and
\* writing its output file.
CanSucceed(f, input_path, target) ==
    LET source == Resolve(f, <<>>, input_path)
    IN  /\ source.ok
        /\ IsFile(f, source.path)
        /\ OpenWrite(f, target, Bytes("")).ok

\* A cleanup by os.rmdir, which removes a directory only when it is empty.
cleanup_by_rmdir(f, path) ==
    IF IsDir(f, path) /\ IterDir(f, path) = {} THEN RmTree(f, path) ELSE f

cleanup_temp_dir(f, path) == RmTree(f, path)

\* ----------------------------------------------------------------- handler

\* A check that accepts every file name with an extension.
SupportedAnySuffix(filename) == NameSuffix(PathName(PathParts(filename))) # <<>>

\* The extension test of line 132.
Supported(filename) == EndsWith(filename, DotTex) \/ EndsWith(filename, DotZip)

\* Lines 135-138.
DownloadName(filename, has_output, output_filename) ==
    IF has_output /\ output_filename # <<>>
    THEN sanitize_filename(output_filename)
    ELSE PathStem(PathParts(filename))

\* The status the framework answers with for an exception that leaves the
\* handler: an HTTPException's own, 500 for any other.
StatusOf(e) == IF e.type = "HTTPException" THEN e.status_code ELSE 500

\* ------------------------------------------------------------------ inputs

CvTex == <<"c", "v">> \o DotTex
CvZip == <<"c", "v">> \o DotZip
TplTex == <<"t", "p", "l">> \o DotTex
ATex == <<"a">> \o DotTex
SubBTex == <<"s", "u", "b", "/", "b">> \o DotTex
DirCvTex == <<"d", "/">> \o CvTex
XDocx == <<"x", ".", "d", "o", "c", "x">>
ResumeCls == <<"r", "e", "s", "u", "m", "e", ".", "c", "l", "s">>
FigPng == <<"f", "i", "g", ".", "p", "n", "g">>
CvMdDir == <<"c", "v">> \o DotMd \o <<"/">>
OutName == <<"o", "u", "t">>
UnsafeOut == <<"x", "/", "o", "@", "t">>
AtTex == <<"c", "@">> \o DotTex
UpCvTex == <<".", ".", "/">> \o CvTex
AssetPathTex ==
    <<"/", "a", "p", "p", "/", "l", "a", "t", "e", "x", "_", "a", "s", "s", "e", "t",
      "s", "/">> \o TplTex
MainTexDir == MainTex \o <<"/">>

Member(name) == [name |-> name, data |-> Bytes("user")]

\* The subsequences of a sequence: the archives built from a pool of members.
RECURSIVE SubSeqs(_)
SubSeqs(s) ==
    IF s = <<>> THEN {<<>>}
    ELSE LET rest == SubSeqs(Tail(s))
         IN  rest \union {<<Head(s)>> \o t : t \in rest}

MemberPool ==
    <<Member(MainTex), Member(CvTex), Member(ATex), Member(SubBTex),
      Member(ResumeCls), Member(CvMdDir)>>

Request(filename, file, target_format, has_output, output_filename) ==
    [filename |-> filename, file |-> file, target_format |-> target_format,
     has_output |-> has_output, output_filename |-> output_filename]

NoRequest == Request(<<>>, Bytes(""), "", FALSE, <<>>)

Formats == {"pdf", "markdown"}

\* Every archive of the pool, two archives with a folder named main.tex and a
\* corrupt archive, with both formats; single documents (one named like a
\* shared asset, one with a character outside the sanitizer's class, three
\* whose name is a path: into a folder, out of the workspace, absolute) and an
\* unsupported file, with both formats, with output_filename absent, empty,
\* plain or in need of sanitizing.
AllRequests ==
    LET archives == {ZipBytes(m) : m \in SubSeqs(MemberPool)}
                    \union {ZipBytes(<<Member(MainTexDir)>>),
                            ZipBytes(<<Member(MainTexDir), Member(ATex)>>),
                            Bytes("user")}
        names == {CvTex, TplTex, AtTex, DirCvTex, UpCvTex, AssetPathTex, XDocx}
        outs == {<<FALSE, <<>> >>, <<TRUE, <<>> >>, <<TRUE, OutName>>,
                 <<TRUE, UnsafeOut>>}
    IN  {Request(CvZip, a, fmt, FALSE, <<>>) : a \in archives, fmt \in Formats}
        \union {Request(n, Bytes("user"), fmt, out[1], out[2]) :
                    n \in names, fmt \in Formats, out \in outs}

\* A few requests, one for each way through the handler.
FewRequests ==
    {Request(CvTex, Bytes("user"), "pdf", FALSE, <<>>),
     Request(XDocx, Bytes("user"), "pdf", FALSE, <<>>),
     Request(DirCvTex, Bytes("user"), "pdf", FALSE, <<>>),
     Request(CvZip, ZipBytes(<<Member(FigPng)>>), "pdf", FALSE, <<>>),
     Request(CvZip, ZipBytes(<<Member(MainTex), Member(CvMdDir)>>), "markdown",
             FALSE, <<>>)}

\* An upload named as a path into the first temporary directory.
IntoTmpATex == <<".", ".", "/", "t", "m", "p", "A", "/">> \o CvTex

\* Uploads whose name is a path out of the workspace: into a temporary
\* directory, and into the application's latex_assets.
CrossRequests ==
    {Request(IntoTmpATex, Bytes("user"), "pdf", FALSE, <<>>),
     Request(AssetPathTex, Bytes("user"), "pdf", FALSE, <<>>)}

\* The bytes a backend's error stream is made of: "A", the two bytes of
\* U+00E9, and 0xFF, which no UTF-8 text holds.
StderrBytes == {65, 195, 169, 255}

RECURSIVE SeqsUpTo(_, _)
SeqsUpTo(S, n) ==
    IF n = 0 THEN {<<>>}
    ELSE LET shorter == SeqsUpTo(S, n - 1)
         IN  shorter \union {Append(t, x) : t \in shorter, x \in S}

\* Every outcome of a format's backend: tectonic with any error stream,
\* pandoc with the text pypandoc reports.
AllOutcomes(target_format) ==
    {Outcome("ok", <<>>, <<>>), Outcome("missing", <<>>, <<>>)}
    \union (IF target_format = "pdf"
            THEN {Outcome("exit", b, <<>>) : b \in SeqsUpTo(StderrBytes, MaxStderrLen)}
            ELSE {Outcome("exit", <<>>, <<69, 233>>)})

FewOutcomes == {Outcome("ok", <<>>, <<>>), Outcome("exit", <<65>>, <<69>>)}

\* The characters output_filename is made of in the sanitizer's specification:
\* a letter, the path separator, a character outside the class, and the dot
\* and the space of the class.
NameChars == {"a", "/", "@", ".", " "}

\* A document uploaded with any output_filename over those characters.
NameRequests ==
    {Request(CvTex, Bytes("user"), "pdf", TRUE, n) :
        n \in SeqsUpTo(NameChars, MaxNameLen)}

\* The AssetSet the service is deployed with: no directory, an empty one, a
\* style class, or a style class and a template document.
AssetSets == {{}, {ResumeCls}, {ResumeCls, TplTex}}

TmpRoot == << <<"t", "m", "p">> >>

\* The file system of a deployment whose latex_assets holds the files named.
Deployed(present, names) ==
    LET dirs == {TmpRoot, AppDir} \union (IF present THEN {ASSETS_DIR} ELSE {})
        files == IF present THEN {Append(ASSETS_DIR, n) : n \in names} ELSE {}
    IN  [p \in dirs \union files |->
            IF p \in dirs THEN DirEntry ELSE FileEntry(Bytes("asset"))]

Deployments ==
    {Deployed(FALSE, {})} \union {Deployed(TRUE, names) : names \in AssetSets}

\* The names tempfile.mkdtemp draws from.
TempLetters == <<"A", "B", "C", "D", "E", "F">>

TempDirs == {Append(TmpRoot, <<"t", "m", "p", TempLetters[i]>>) : i \in 1..MaxRequests}

Requests == 1..MaxRequests

\* ------------------------------------------------------------------- state

VARIABLES
    fs,       \* the file system
    pc,       \* each request's position in convert_latex and in its response
    req,      \* each request's parameters
    local,    \* each request's local variables of convert_latex
    tasks,    \* each request's BackgroundTasks: the paths cleanup is due for
    resp,     \* each request's response
    calls     \* each request's backend invocations: their outcomes, in order

vars == <<fs, pc, req, local, tasks, resp, calls>>

NoLocal ==
    [download_name |-> <<>>, temp_dir |-> <<>>, saved_file_path |-> <<>>,
     input_path |-> <<>>, result_path |-> <<>>, media_type |-> "",
     final_filename |-> <<>>, final_path |-> <<>>, e |-> NoExc]

NoResponse ==
    [status |-> 0, detail |-> NoDetail, path |-> <<>>, filename |-> <<>>,
     media_type |-> "", body |-> Bytes(""), sent |-> FALSE]

ErrorResponse(e) ==
    [NoResponse EXCEPT !.status = StatusOf(e), !.detail = e.detail, !.sent = TRUE]

\* FileResponse(path=..., filename=..., media_type=...)
FileResponse(path, filename, media_type) ==
    [NoResponse EXCEPT !.status = 200, !.path = path, !.filename = filename,
                       !.media_type = media_type]

\* No request has arrived; the service is deployed with the style class.
Init ==
    /\ fs = Deployed(TRUE, {ResumeCls})
    /\ pc = [r \in Requests |-> "idle"]
    /\ req = [r \in Requests |-> NoRequest]
    /\ local = [r \in Requests |-> NoLocal]
    /\ tasks = [r \in Requests |-> <<>>]
    /\ resp = [r \in Requests |-> NoResponse]
    /\ calls = [r \in Requests |-> <<>>]

\* ----------------------------------------------------------------- actions

\* An exception raised inside the try block: control goes to line 171.
Raised(r, e) ==
    /\ local' = [local EXCEPT ![r].e = e]
    /\ pc' = [pc EXCEPT ![r] = "except"]

\* Lines 132-138: the request arrives and is validated.
Validate(r, q) ==
    /\ pc[r] = "idle"
    /\ req' = [req EXCEPT ![r] = q]
    /\ IF ~Supported(q.filename)
       THEN /\ resp' = [resp EXCEPT ![r] = ErrorResponse(
                            HTTPException(400, "Only .tex or .zip files are supported",
                                          <<>>))]
            /\ pc' = [pc EXCEPT ![r] = "done"]
            /\ UNCHANGED local
       ELSE /\ local' = [local EXCEPT ![r].download_name =
                            DownloadName(q.filename, q.has_output, q.output_filename)]
            /\ pc' = [pc EXCEPT ![r] = "mkdtemp"]
            /\ UNCHANGED resp
    /\ UNCHANGED <<fs, tasks, calls>>

\* Lines 140-141: tempfile.mkdtemp makes a directory under a name not in use.
Mkdtemp(r) ==
    /\ pc[r] = "mkdtemp"
    /\ \E d \in TempDirs :
        /\ d \notin DOMAIN fs
        /\ fs' = [p \in DOMAIN fs \union {d} |->
                    IF p = d THEN WorkspaceEntry(r) ELSE fs[p]]
        /\ local' = [local EXCEPT ![r].temp_dir = d]
    /\ pc' = [pc EXCEPT ![r] = "save"]
    /\ UNCHANGED <<req, tasks, resp, calls>>

\* Lines 145-150.
SaveUpload(r) ==
    /\ pc[r] = "save"
    /\ LET saved == _save_upload_file(fs, req[r], local[r].temp_dir)
       IN  /\ fs' = saved.fs
           /\ IF ~saved.ok THEN Raised(r, saved.e)
              ELSE IF EndsWith(req[r].filename, DotZip)
              THEN /\ local' = [local EXCEPT ![r].saved_file_path = saved.path]
                   /\ pc' = [pc EXCEPT ![r] = "extract"]
              ELSE /\ local' = [local EXCEPT ![r].saved_file_path = saved.path,
                                             ![r].input_path = saved.path]
                   /\ pc' = [pc EXCEPT ![r] = "convert"]
    /\ UNCHANGED <<req, tasks, resp, calls>>

\* Line 148: _extract_and_find_tex (lines 67-87).
ExtractAndFindTex(r) ==
    /\ pc[r] = "extract"
    /\ LET staged == ExtractStage(fs, local[r].saved_file_path, local[r].temp_dir)
           found == FindTex(staged.fs, local[r].saved_file_path, local[r].temp_dir)
       IN  /\ fs' = staged.fs
           /\ IF ~staged.ok THEN Raised(r, Exc(staged.err))
              ELSE IF found = {}
              THEN Raised(r, HTTPException(400, "No .tex file found in the ZIP archive.",
                                           <<>>))
              ELSE \E tex \in found :
                      /\ local' = [local EXCEPT ![r].input_path = tex]
                      /\ pc' = [pc EXCEPT ![r] = "convert"]
    /\ UNCHANGED <<req, tasks, resp, calls>>

\* to_pdf or to_markdown, by the format.
Render(f, target_format, input_path, output_dir, outcome) ==
    IF target_format = "pdf" THEN to_pdf(f, input_path, output_dir, outcome)
    ELSE to_markdown(f, input_path, output_dir, outcome)

RenderTarget(target_format, input_path, output_dir) ==
    IF target_format = "pdf"
    THEN Append(output_dir, PathStem(input_path) \o DotPdf)
    ELSE Append(output_dir, <<"o", "u", "t", "p", "u", "t">> \o DotMd)

\* Lines 152-160: the backend runs once, with the outcome given.
Convert(r, outcome) ==
    /\ pc[r] = "convert"
    /\ outcome.kind = "ok" =>
          CanSucceed(fs, local[r].input_path,
                     RenderTarget(req[r].target_format, local[r].input_path,
                                  local[r].temp_dir))
    /\ calls' = [calls EXCEPT ![r] = Append(@, outcome)]
    /\ LET done == Render(fs, req[r].target_format, local[r].input_path,
                          local[r].temp_dir, outcome)
       IN  /\ fs' = done.fs
           /\ IF ~done.ok THEN Raised(r, done.e)
              ELSE /\ local' = [local EXCEPT
                          ![r].result_path = done.path,
                          ![r].media_type =
                              IF req[r].target_format = "pdf" THEN "application/pdf"
                              ELSE "text/markdown",
                          ![r].final_filename =
                              local[r].download_name
                              \o (IF req[r].target_format = "pdf" THEN DotPdf
                                  ELSE DotMd)]
                   /\ pc' = [pc EXCEPT ![r] = "rename"]
    /\ UNCHANGED <<req, tasks, resp>>

\* A finalisation that never renames: the artifact stays where the renderer
\* wrote it.
RenameNever(r) ==
    /\ pc[r] = "rename"
    /\ local' = [local EXCEPT ![r].final_path = local[r].result_path]
    /\ pc' = [pc EXCEPT ![r] = "handoff"]
    /\ UNCHANGED <<fs, req, tasks, resp, calls>>

\* Lines 163-165.
Rename(r) ==
    /\ pc[r] = "rename"
    /\ LET final_path == Join(local[r].temp_dir, local[r].final_filename)
           moved == IF local[r].result_path # final_path
                    THEN RenameFile(fs, local[r].result_path, final_path)
                    ELSE Ok(fs)
       IN  /\ fs' = moved.fs
           /\ IF ~moved.ok THEN Raised(r, Exc(moved.err))
              ELSE /\ local' = [local EXCEPT ![r].final_path = final_path]
                   /\ pc' = [pc EXCEPT ![r] = "handoff"]
    /\ UNCHANGED <<req, tasks, resp, calls>>

\* A hand-off that schedules no cleanup.
HandOffNoTask(r) ==
    /\ pc[r] = "handoff"
    /\ resp' = [resp EXCEPT ![r] = FileResponse(local[r].final_path,
                                                local[r].final_filename,
                                                local[r].media_type)]
    /\ local' = [local EXCEPT ![r] = NoLocal]
    /\ pc' = [pc EXCEPT ![r] = "respond"]
    /\ UNCHANGED <<fs, req, tasks, calls>>

\* A hand-off that cleans up at once, before the response is returned.
HandOffEager(r) ==
    /\ pc[r] = "handoff"
    /\ fs' = cleanup_temp_dir(fs, local[r].temp_dir)
    /\ resp' = [resp EXCEPT ![r] = FileResponse(local[r].final_path,
                                                local[r].final_filename,
                                                local[r].media_type)]
    /\ local' = [local EXCEPT ![r] = NoLocal]
    /\ pc' = [pc EXCEPT ![r] = "respond"]
    /\ UNCHANGED <<req, tasks, calls>>

\* Lines 167-169: cleanup is added to the background tasks and the handler
\* returns the FileResponse; its local variables are gone.
HandOff(r) ==
    /\ pc[r] = "handoff"
    /\ tasks' = [tasks EXCEPT ![r] = Append(@, local[r].temp_dir)]
    /\ resp' = [resp EXCEPT ![r] = FileResponse(local[r].final_path,
                                                local[r].final_filename,
                                                local[r].media_type)]
    /\ local' = [local EXCEPT ![r] = NoLocal]
    /\ pc' = [pc EXCEPT ![r] = "respond"]
    /\ UNCHANGED <<fs, req, calls>>

\* The FileResponse is sent: the file at its path is read and delivered. A
\* missing file fails the response, and its background tasks never run.
Deliver(r) ==
    /\ pc[r] = "respond"
    /\ IF IsFile(fs, resp[r].path)
       THEN /\ resp' = [resp EXCEPT ![r].body = fs[resp[r].path].data,
                                    ![r].sent = TRUE]
            /\ pc' = [pc EXCEPT ![r] = "background"]
       ELSE /\ resp' = [resp EXCEPT ![r] = ErrorResponse(Exc("RuntimeError"))]
            /\ pc' = [pc EXCEPT ![r] = "done"]
    /\ UNCHANGED <<fs, req, local, tasks, calls>>

\* The caller disconnects, or the connection's task is cancelled, while the
\* FileResponse is being sent. The handler has returned and has no part in
\* what follows: a server that ignores writes to a closed connection lets the
\* response finish, and its background tasks run; a send that raises (or a
\* cancellation) leaves the response before the background tasks are reached.
Abort(r) ==
    /\ pc[r] = "respond"
    /\ \/ pc' = [pc EXCEPT ![r] = "background"]
       \/ pc' = [pc EXCEPT ![r] = "done"]
    /\ UNCHANGED <<fs, req, local, tasks, resp, calls>>

\* The response's background tasks run, after the response was sent.
RECURSIVE RunTasks(_, _)
RunTasks(f, paths) ==
    IF paths = <<>> THEN f
    ELSE RunTasks(cleanup_temp_dir(f, Head(paths)), Tail(paths))

Background(r) ==
    /\ pc[r] = "background"
    /\ fs' = RunTasks(fs, tasks[r])
    /\ tasks' = [tasks EXCEPT ![r] = <<>>]
    /\ pc' = [pc EXCEPT ![r] = "done"]
    /\ UNCHANGED <<req, local, resp, calls>>

\* A cleanup in the except block by shutil.rmtree without ignore_errors: a
\* missing workspace raises, and that exception takes the place of e.
ExceptCleanupRaising(r) ==
    /\ pc[r] = "except"
    /\ fs' = cleanup_temp_dir(fs, local[r].temp_dir)
    /\ local' = IF IsDir(fs, local[r].temp_dir) THEN local
                ELSE [local EXCEPT ![r].e = Exc("FileNotFoundError")]
    /\ pc' = [pc EXCEPT ![r] = "raise"]
    /\ UNCHANGED <<req, tasks, resp, calls>>

\* Line 172 on a file system that refuses deletions: rmtree's errors are
\* ignored and what it could not delete stays.
CleanupFails(r) ==
    /\ pc[r] = "except"
    /\ fs' \in RmTreeFailing(fs, local[r].temp_dir)
    /\ pc' = [pc EXCEPT ![r] = "raise"]
    /\ UNCHANGED <<req, local, tasks, resp, calls>>

\* The workspace is removed from outside the service (a cleaner of the
\* temporary directory) after a stage failed and before line 172 runs.
WorkspaceLost(r) ==
    /\ pc[r] = "except"
    /\ IsDir(fs, local[r].temp_dir)
    /\ fs' = RmTree(fs, local[r].temp_dir)
    /\ UNCHANGED <<pc, req, local, tasks, resp, calls>>

\* Line 172: the except block's cleanup.
ExceptCleanup(r) ==
    /\ pc[r] = "except"
    /\ fs' = cleanup_temp_dir(fs, local[r].temp_dir)
    /\ pc' = [pc EXCEPT ![r] = "raise"]
    /\ UNCHANGED <<req, local, tasks, resp, calls>>

\* Line 173: the exception leaves the handler and becomes the response.
Reraise(r) ==
    /\ pc[r] = "raise"
    /\ resp' = [resp EXCEPT ![r] = ErrorResponse(local[r].e)]
    /\ local' = [local EXCEPT ![r] = NoLocal]
    /\ pc' = [pc EXCEPT ![r] = "done"]
    /\ UNCHANGED <<fs, req, tasks, calls>>

\* ----------------------------------------------------------- specifications

\* Concurrent requests, each one of a few kinds.
Next ==
    \E r \in Requests :
        \/ \E q \in FewRequests : Validate(r, q)
        \/ Mkdtemp(r)
        \/ SaveUpload(r)
        \/ ExtractAndFindTex(r)
        \/ \E outcome \in FewOutcomes : Convert(r, outcome)
        \/ Rename(r)
        \/ HandOff(r)
        \/ Deliver(r)
        \/ Background(r)
        \/ ExceptCleanup(r)
        \/ Reraise(r)

Spec == Init /\ [][Next]_vars

\* One request, of any kind, with any backend outcome.
NextOne ==
    \/ \E q \in AllRequests : Validate(1, q)
    \/ Mkdtemp(1)
    \/ SaveUpload(1)
    \/ ExtractAndFindTex(1)
    \/ \E outcome \in AllOutcomes(req[1].target_format) : Convert(1, outcome)
    \/ Rename(1)
    \/ HandOff(1)
    \/ Deliver(1)
    \/ Background(1)
    \/ ExceptCleanup(1)
    \/ Reraise(1)

\* No request has arrived; the service is deployed with any AssetSet.
InitOne ==
    /\ fs \in Deployments
    /\ pc = [r \in Requests |-> "idle"]
    /\ req = [r \in Requests |-> NoRequest]
    /\ local = [r \in Requests |-> NoLocal]
    /\ tasks = [r \in Requests |-> <<>>]
    /\ resp = [r \in Requests |-> NoResponse]
    /\ calls = [r \in Requests |-> <<>>]

SpecOne == InitOne /\ [][NextOne]_vars

\* Concurrent requests, among them uploads named as paths out of the workspace.
NextCross ==
    \/ Next
    \/ \E r \in Requests : \E q \in CrossRequests : Validate(r, q)

SpecCross == Init /\ [][NextCross]_vars

\* One request whose caller may disconnect during the response.
NextAbort == NextOne \/ Abort(1)

SpecAbort == InitOne /\ [][NextAbort]_vars

\* One request, in the deployment with the style class, on a file system
\* where deleting the workspace may fail and where the workspace may already
\* be gone when cleanup runs.
NextFaulty == NextOne \/ CleanupFails(1) \/ WorkspaceLost(1)

SpecFaulty == Init /\ [][NextFaulty]_vars

\* A request arrives with any output_filename and its download name is
\* computed (lines 135-138).
NextNames == \E q \in NameRequests : Validate(1, q)

SpecNames == Init /\ [][NextNames]_vars

\* ------------------------------------------------------------------ claims

\* The workspace of request r: the directory its mkdtemp made, while it exists.
Workspace(r) == {p \in DOMAIN fs : fs[p].owner = r}

\* The directories left under the temporary root.
LeftoverDirs == {p \in IterDir(fs, TmpRoot) : fs[p].kind = "dir"}

Settled(r) == pc[r] = "idle" \/ pc[r] = "done"

\* C1: once every response has settled (each request that arrived has its
\* response and its background tasks behind it), no directory made by mkdtemp
\* is left, whatever the mix of outcomes and the interleaving.
C1_NoLeftoverWorkspace ==
    (\A r \in Requests : Settled(r)) => LeftoverDirs = {}

\* All requests arrived and settled, one with its artifact delivered and one
\* failed in the renderer.
C1_Witness ==
    /\ \A r \in Requests : pc[r] = "done"
    /\ \E r \in Requests : resp[r].status = 200 /\ resp[r].sent
    /\ \E r \in Requests : resp[r].status = 422
    /\ LeftoverDirs = {}

\* C2: an error response of a request that had a workspace is only ever
\* surfaced after that workspace has been removed.
C2_CleanupBeforeError ==
    \A r \in Requests :
        (resp[r].sent /\ resp[r].status >= 400) => Workspace(r) = {}

\* A rename failed after a successful render, its error was surfaced, and the
\* workspace is gone while another request's workspace is still there.
C2_Witness ==
    \E r, o \in Requests :
        /\ resp[r].sent /\ resp[r].status = 500
        /\ calls[r] # <<>> /\ calls[r][1].kind = "ok"
        /\ Workspace(r) = {}
        /\ Workspace(o) # {}

\* C3: from the hand-off of the FileResponse until it is sent, the artifact is
\* a file inside the request's workspace, and cleanup is only a pending
\* background task.
C3_ArtifactPresentUntilSent ==
    \A r \in Requests :
        pc[r] = "respond" =>
            /\ IsFile(fs, resp[r].path)
            /\ \E w \in Workspace(r) : IsPrefix(w, resp[r].path) /\ tasks[r] = <<w>>

\* One response is handed off and not yet sent while another request's
\* deferred cleanup has already run.
C3_Witness ==
    \E r, o \in Requests :
        /\ pc[r] = "respond"
        /\ IsFile(fs, resp[r].path)
        /\ pc[o] = "done" /\ resp[o].status = 200 /\ Workspace(o) = {}

UnsupportedName(filename) ==
    ~EndsWith(filename, DotTex) /\ ~EndsWith(filename, DotZip)

\* C4: a request whose file name ends with neither .tex nor .zip is answered
\* with 400 in the step that takes it, that step leaves the file system as it
\* is, and the request never has a workspace.
C4_UnsupportedCreatesNothing ==
    [][\A r \in Requests :
          (req'[r] # NoRequest /\ UnsupportedName(req'[r].filename)) =>
              /\ \A p \in DOMAIN fs' : fs'[p].owner # r
              /\ pc'[r] # pc[r] =>
                    (fs' = fs /\ pc'[r] = "done" /\ resp'[r].status = 400)]_vars

\* An unsupported upload was answered with 400 while another request's
\* workspace exists.
C4_Witness ==
    \E r, o \in Requests :
        /\ req[r].filename = XDocx
        /\ resp[r].sent /\ resp[r].status = 400
        /\ Workspace(r) = {}
        /\ Workspace(o) # {}

\* The names of the files of the shared AssetSet.
AssetNames == {PathName(p) : p \in {q \in IterDir(fs, ASSETS_DIR) : IsFile(fs, q)}}

HasSlash(name) == \E i \in 1..Len(name) : name[i] = "/"

\* The names request r supplies at the workspace root: the uploaded file and,
\* for an archive, its members that are files at the archive root.
UserNames(r) ==
    (IF HasSlash(req[r].filename) THEN {} ELSE {req[r].filename})
    \union {req[r].file.members[i].name : i \in
               {j \in 1..Len(req[r].file.members) :
                   ~HasSlash(req[r].file.members[j].name)}}

\* C5: when staging is over and the renderer is about to run, every file name
\* that is both a shared asset and supplied by the user holds the user's
\* bytes in the workspace root.
C5_UserFileBeatsAsset ==
    \A r \in Requests :
        pc[r] = "convert" =>
            \A n \in AssetNames \intersect UserNames(r) :
                LET p == Append(local[r].temp_dir, n)
                IN  p \in DOMAIN fs /\ fs[p].data.src = "user"

\* An archive with its own resume.cls was staged where resume.cls is a shared
\* asset and another asset was injected next to it.
C5_Witness ==
    /\ pc[1] = "convert"
    /\ req[1].file.zip
    /\ ResumeCls \in AssetNames \intersect UserNames(1)
    /\ fs[Append(local[1].temp_dir, ResumeCls)].data.src = "user"
    /\ Append(local[1].temp_dir, TplTex) \in DOMAIN fs
    /\ fs[Append(local[1].temp_dir, TplTex)].data.src = "asset"

\* The archive's own name with its extension swapped for .tex.
ArchiveTex(filename) == SubSeq(filename, 1, Len(filename) - Len(DotZip)) \o DotTex

\* C6: the entry document of an archive is main.tex when that exists at the
\* workspace root; else <archive-base-name>.tex when that exists there; else
\* one of the entries of the workspace root whose name ends with .tex.
C6_EntryByRuleOrder ==
    \A r \in Requests :
        (pc[r] = "convert" /\ EndsWith(req[r].filename, DotZip)) =>
            LET root == local[r].temp_dir
                main == Append(root, MainTex)
                own == Append(root, ArchiveTex(req[r].filename))
                entry == local[r].input_path
            IN  /\ main \in DOMAIN fs => entry = main
                /\ (main \notin DOMAIN fs /\ own \in DOMAIN fs) => entry = own
                /\ (main \notin DOMAIN fs /\ own \notin DOMAIN fs) =>
                      /\ entry \in DOMAIN fs
                      /\ PathParent(entry) = root
                      /\ EndsWith(PathName(entry), DotTex)

\* main.tex was selected although cv.tex (the archive's name) and a.tex are
\* at the root too.
C6_Witness ==
    /\ pc[1] = "convert"
    /\ local[1].input_path = Append(local[1].temp_dir, MainTex)
    /\ Append(local[1].temp_dir, CvTex) \in DOMAIN fs
    /\ Append(local[1].temp_dir, ATex) \in DOMAIN fs

\* The .tex files anywhere under a directory.
TexFilesUnder(d) ==
    {p \in DOMAIN fs :
        /\ IsPrefix(d, p) /\ p # d
        /\ fs[p].kind = "file"
        /\ EndsWith(PathName(p), DotTex)}

\* C7: the search only fails with the structural error when no .tex file lies
\* anywhere under the workspace, subfolders included.
C7_SubfolderTexIsFound ==
    \A r \in Requests :
        (pc[r] = "except" /\ local[r].e.status_code = 400) =>
            TexFilesUnder(local[r].temp_dir) = {}

\* An archive none of whose members, at any depth, is named *.tex.
NoTexMember(file) ==
    /\ file.zip
    /\ \A i \in 1..Len(file.members) : ~EndsWith(file.members[i].name, DotTex)

\* C8: an archive without any .tex file is answered with 400, without the
\* renderer being invoked and with the workspace removed, whatever the AssetSet.
C8_NoTexArchiveIs400 ==
    \A r \in Requests :
        (pc[r] = "done" /\ NoTexMember(req[r].file)) =>
            /\ resp[r].status = 400
            /\ calls[r] = <<>>
            /\ Workspace(r) = {}

\* C9: a non-zero exit of the PDF backend is answered with 422, and the
\* response's detail is a non-empty text that holds the error stream's bytes.
C9_NonZeroExitIs422 ==
    \A r \in Requests :
        (pc[r] = "done" /\ req[r].target_format = "pdf"
            /\ calls[r] # <<>> /\ calls[r][1].kind = "exit") =>
            /\ resp[r].status = 422
            /\ resp[r].detail.msg # ""
            /\ Utf8Encode(resp[r].detail.log) = calls[r][1].stderr

\* C10: a missing backend executable ends the request after that one attempt,
\* and the response, sent once the workspace is removed, has status 500.
C10_BackendMissingIs500 ==
    \A r \in Requests :
        (calls[r] # <<>> /\ calls[r][1].kind = "missing") =>
            /\ Len(calls[r]) = 1
            /\ pc[r] \in {"except", "raise", "done"}
            /\ resp[r].sent => (resp[r].status = 500 /\ Workspace(r) = {})

\* The document converter was missing for a markdown request, which was
\* answered with 500.
C10_Witness ==
    /\ pc[1] = "done"
    /\ req[1].target_format = "markdown"
    /\ calls[1] = <<Outcome("missing", <<>>, <<>>)>>
    /\ resp[1].status = 500
    /\ Workspace(1) = {}

\* The extension a format's artifact is named with (lines 155 and 159).
FormatExt(target_format) == IF target_format = "pdf" THEN DotPdf ELSE DotMd

\* The base part of a download name: what precedes the format's extension.
BasePart(r) ==
    SubSeq(resp[r].filename, 1,
           Len(resp[r].filename) - Len(FormatExt(req[r].target_format)))

Delivered(r) == resp[r].status = 200 /\ resp[r].sent

\* C11: the download name of every delivered artifact is a non-empty base of
\* characters from [A-Za-z0-9_.- ] (so without any path separator) followed by
\* the format's extension, whether output_filename is given, empty or absent.
C11_DownloadNameIsSanitized ==
    \A r \in Requests :
        Delivered(r) =>
            /\ EndsWith(resp[r].filename, FormatExt(req[r].target_format))
            /\ BasePart(r) # <<>>
            /\ \A i \in 1..Len(BasePart(r)) : AllowedChar(BasePart(r)[i])

\* The base name a request asks for: the sanitized output_filename when one
\* is given, else the upload's own name without its folder and extension.
ExpectedBase(r) ==
    IF req[r].has_output /\ req[r].output_filename # <<>>
    THEN sanitize_filename(req[r].output_filename)
    ELSE LET n == Basename(req[r].filename)
         IN  SubSeq(n, 1, Len(n) - Len(DotTex))

ExpectedMedia(r) ==
    IF req[r].target_format = "pdf" THEN "application/pdf" ELSE "text/markdown"

ExpectedKind(r) == IF req[r].target_format = "pdf" THEN "pdf" ELSE "md"

\* C12: when the pipeline has succeeded, the artifact is the renderer's output
\* for the entry document and is a file at <workspace>/<base><extension>,
\* moved there when the renderer wrote elsewhere; the response names that
\* path, that download name and the format's media type, and delivers the
\* renderer's bytes. Without output_filename the base is the upload's name.
C12_ArtifactAtCanonicalPath ==
    \A r \in Requests :
        LET name == ExpectedBase(r) \o FormatExt(req[r].target_format)
        IN  /\ pc[r] = "handoff" =>
                  LET canonical == Append(local[r].temp_dir, name)
                  IN  /\ local[r].final_path = canonical
                      /\ local[r].final_filename = name
                      /\ local[r].media_type = ExpectedMedia(r)
                      /\ IsFile(fs, canonical)
                      /\ fs[canonical].data =
                            Rendered(ExpectedKind(r), local[r].input_path)
                      /\ local[r].result_path # canonical =>
                            local[r].result_path \notin DOMAIN fs
            /\ pc[r] = "respond" =>
                  /\ \E w \in Workspace(r) : resp[r].path = Append(w, name)
                  /\ resp[r].filename = name
                  /\ resp[r].media_type = ExpectedMedia(r)
                  /\ IsFile(fs, resp[r].path)
                  /\ fs[resp[r].path].data.src = ExpectedKind(r)
            /\ Delivered(r) =>
                  /\ resp[r].filename = name
                  /\ resp[r].media_type = ExpectedMedia(r)
                  /\ resp[r].body.src = ExpectedKind(r)

\* An archive named cv.zip whose entry document is main.tex was converted to
\* Markdown: the converter's output.md was moved to cv.md.
C12_Witness ==
    /\ pc[1] = "handoff"
    /\ req[1].filename = CvZip
    /\ local[1].input_path = Append(local[1].temp_dir, MainTex)
    /\ local[1].result_path # local[1].final_path
    /\ local[1].result_path \notin DOMAIN fs
    /\ local[1].final_path = Append(local[1].temp_dir, <<"c", "v">> \o DotMd)
    /\ IsFile(fs, local[1].final_path)

\* A string none of whose allowed characters lies after its last slash: only
\* disallowed characters, or only folders that basename strips.
NothingKept(s) ==
    \A i \in 1..Len(s) :
        AllowedChar(s[i]) => \E j \in (i + 1)..Len(s) : s[j] = "/"

\* C13: for every output_filename s, sanitizing sanitize_filename(s) again
\* gives sanitize_filename(s); the result is never empty, holds neither a
\* slash nor any other disallowed character, and is "document" when nothing
\* of s is kept; it is the download name of a request with a non-empty s.
C13_SanitizeIdempotentTotal ==
    \A r \in Requests :
        req[r] # NoRequest =>
            LET s == req[r].output_filename
                once == sanitize_filename(s)
            IN  /\ sanitize_filename(once) = once
                /\ once # <<>>
                /\ \A i \in 1..Len(once) : AllowedChar(once[i])
                /\ NothingKept(s) => once = DefaultName
                /\ (s # <<>> /\ pc[r] = "mkdtemp") => local[r].download_name = once

\* The output_filename "a/@", a folder and a disallowed character, gave the
\* download name "document".
C13_Witness ==
    /\ pc[1] = "mkdtemp"
    /\ req[1].output_filename = <<"a", "/", "@">>
    /\ local[1].download_name = DefaultName

\* A response that was handed off and whose delivery was aborted.
Aborted(r) == pc[r] = "done" /\ resp[r].status = 200 /\ ~resp[r].sent

\* C14: a request whose pipeline succeeded and whose delivery was aborted has
\* no workspace left once nothing more runs for it.
C14_AbortedDeliveryIsCleaned ==
    \A r \in Requests : Aborted(r) => Workspace(r) = {}

\* The files the pipeline wrote: the upload, the archive's members, the
\* renderer's output (the assets' copies hold the assets' bytes).
WrittenFiles == {p \in DOMAIN fs : fs[p].kind = "file" /\ fs[p].data.src # "asset"}

InsideWorkspace(r, p) == \E w \in Workspace(r) : IsPrefix(w, p) /\ p # w

\* The entry document the renderer is about to get is a regular file inside
\* the request's workspace.
EntryIsFileInside(r) ==
    LET entry == Resolve(fs, <<>>, local[r].input_path)
    IN  /\ entry.ok
        /\ IsFile(fs, entry.path)
        /\ InsideWorkspace(r, entry.path)

\* C15: whatever the upload is named and whatever the archive holds, the
\* renderer is handed a regular file inside the request's workspace, and
\* every file written for a request lies inside its workspace.
C15_EntryAndWritesInsideWorkspace ==
    /\ \A r \in Requests : pc[r] = "convert" => EntryIsFileInside(r)
    /\ \A p \in WrittenFiles : \E r \in Requests : InsideWorkspace(r, p)

\* The paths at which two file systems differ.
Changed(f, g) ==
    {p \in DOMAIN f \union DOMAIN g :
        ~(p \in DOMAIN f /\ p \in DOMAIN g /\ f[p] = g[p])}

\* C16: requests in flight have distinct workspaces, and a step of one
\* request changes nothing in another request's workspace and nothing in the
\* AssetSet directory.
C16_NoSharedMutableState ==
    [][\A r \in Requests :
          pc'[r] # pc[r] =>
              /\ \A o \in Requests \ {r} :
                    /\ Workspace(o) \intersect Workspace(r) = {}
                    /\ \A w \in Workspace(o) :
                          \A p \in Changed(fs, fs') : ~IsPrefix(w, p)
              /\ \A p \in Changed(fs, fs') : ~IsPrefix(ASSETS_DIR, p)]_vars

\* C17: the exception a stage raised is the one that leaves the handler: the
\* except block's cleanup ends in line 173 with e as it was, whether the
\* workspace was deleted, could not be deleted or was already gone; the
\* response then has e's status (500 for what is no HTTPException) and e's
\* detail; and a second cleanup would change nothing more.
C17_ErrorSurvivesCleanup ==
    [][\A r \in Requests :
          /\ (pc[r] # "except" /\ pc'[r] = "except") => local'[r].e # NoExc
          /\ pc[r] = "except" =>
                /\ pc'[r] \in {"except", "raise"}
                /\ local'[r].e = local[r].e
                /\ cleanup_temp_dir(cleanup_temp_dir(fs, local[r].temp_dir),
                                    local[r].temp_dir)
                      = cleanup_temp_dir(fs, local[r].temp_dir)
          /\ pc[r] = "raise" =>
                (pc'[r] = "done" \/ pc'[r] = "raise")
          /\ (pc[r] = "raise" /\ pc'[r] = "done") =>
                /\ resp'[r].sent
                /\ resp'[r].status =
                      (IF local[r].e.type = "HTTPException"
                       THEN local[r].e.status_code ELSE 500)
                /\ resp'[r].detail = local[r].e.detail]_vars

\* A failed compilation was answered with 422 although the workspace could
\* not be deleted.
C17_Witness ==
    /\ pc[1] = "done"
    /\ resp[1].status = 422
    /\ resp[1].detail.log # <<>>
    /\ Workspace(1) # {}

\* A file system without latex_assets, given an empty latex_assets.
WithEmptyAssets(f) ==
    [p \in DOMAIN f \union {ASSETS_DIR} |-> IF p = ASSETS_DIR THEN DirEntry ELSE f[p]]

\* The same outcome and the same files, but for the empty latex_assets.
SameButAssetsDir(a, b) ==
    /\ a.ok = b.ok
    /\ WithEmptyAssets(a.fs) = b.fs
    /\ \A k \in DOMAIN a \ {"fs"} : a[k] = b[k]

\* C18: in a deployment without latex_assets, _inject_assets returns without
\* an error and without touching the file system, and each stage does to the
\* request what it does when latex_assets exists and is empty.
C18_MissingAssetsLikeEmpty ==
    \A r \in Requests :
        ASSETS_DIR \notin DOMAIN fs =>
            LET dir == local[r].temp_dir
                empty == WithEmptyAssets(fs)
            IN  /\ pc[r] \in {"save", "extract"} => _inject_assets(fs, dir) = Ok(fs)
                /\ pc[r] = "save" =>
                      SameButAssetsDir(_save_upload_file(fs, req[r], dir),
                                       _save_upload_file(empty, req[r], dir))
                /\ pc[r] = "extract" =>
                      LET a == ExtractStage(fs, local[r].saved_file_path, dir)
                          b == ExtractStage(empty, local[r].saved_file_path, dir)
                      IN  /\ SameButAssetsDir(a, b)
                          /\ FindTex(a.fs, local[r].saved_file_path, dir)
                                = FindTex(b.fs, local[r].saved_file_path, dir)
                /\ pc[r] = "convert" =>
                      \A outcome \in AllOutcomes(req[r].target_format) :
                          SameButAssetsDir(
                              Render(fs, req[r].target_format, local[r].input_path,
                                     dir, outcome),
                              Render(empty, req[r].target_format,
                                     local[r].input_path, dir, outcome))

====
